---- MODULE Spec2Model ----
(***************************************************************************)
(* Model of .github/scripts/swe_agent_wrapper.py (class                    *)
(* SWEAgentGitHubWrapper and main) and of hello_world.py.                  *)
(*                                                                         *)
(* The wrapper is a sequential script.  pc is the position of the single   *)
(* thread of control; every call into the GitHub client, the agent or git  *)
(* blocks, and either returns or raises.  Whether such a call raises is    *)
(* decided by the environment, so each of them is a nondeterministic       *)
(* choice between success and a fault.  Every external call is appended to *)
(* the log calls in program order, together with its outcome.            *)
(*                                                                         *)
(* Strings built with f-strings are modelled as sequences of segments:     *)
(* the literal pieces of the template and the interpolated values.  The    *)
(* emoji and the backquotes of the templates are left out of the literals *)
(* (a code fence is the segment text <fence>).                             *)
(***************************************************************************)
EXTENDS Integers, Sequences, FiniteSets, TLC

\* ---------------------------------------------------------------- bounds
MaxComments   == 6      \* the thread has 0..MaxComments comments
MaxHelloCalls == 2      \* hello_world.py is run at most this many times

\* -------------------------------------------------------------- variables
VARIABLES
    pc,               \* position of control in main()/run()
    command,          \* self.command
    context_type,     \* self.context_type
    pr_head_ref,      \* self.pr_head_ref
    comments,         \* the comments of the thread, oldest first
    status_comment,   \* self.status_comment: None or the comment object
    statusState,      \* the status comment on GitHub: absent, live, deleted
    calls,            \* log of the external calls made so far
    problem,          \* local problem of run()
    problem_statement,\* parameter/local of run_swe_agent()
    results,          \* local results of run(): a dict
    patch_applied,    \* local of run()
    patch_message,    \* local of run()
    formatted_results,\* local of run()
    gitIdx,           \* apply_patch_to_pr: number of git steps completed
    tmpdir,           \* the TemporaryDirectory: none, exists, removed
    dataFile,         \* github_issue_<n>.json exists on disk
    exc,              \* the exception being handled by run(), or NoExc
    failedAt,         \* the step of run() that raised, or NoStep
    handlerFault,     \* the environment faulted a call of the except block
    exitExc,          \* the exception that left run(), or NoExc
    helloCalls,       \* number of runs of hello_world.py
    stdout            \* last line printed by hello_world.py

vars == <<pc, command, context_type, pr_head_ref, comments, status_comment,
          statusState, calls, problem, problem_statement, results, patch_applied, patch_message,
          formatted_results, gitIdx, tmpdir, dataFile, exc, failedAt,
          handlerFault, exitExc, helloCalls, stdout>>

\* ------------------------------------------------------------- constants
None   == "None"
NoExc  == "no exception"
NoStep == "no step"

\* valid_commands of validate_command: command |-> description
valid_commands ==
    [analyze |-> "Analyze the issue without proposing changes",
     fix     |-> "Analyze and propose a fix",
     test    |-> "Run tests on the current code",
     review  |-> "Review the current changes"]

\* --command is a free string (default 'fix'); "deploy" stands for every
\* string that is not a valid command.
Commands == DOMAIN valid_commands \cup {"deploy"}

IssueContexts == {"issues", "issue_comment"}
PRContexts    == {"pull_request", "pull_request_comment"}
\* --context is a free string; "push" stands for every other value.
Contexts      == IssueContexts \cup PRContexts \cup {"push"}

\* --pr-head-ref, default ''
HeadRefs == {"", "feature"}

Title == "<title>"
Body  == "<body>"
Login == "<login>"
CommentBody(i) == "comment " \o ToString(i)
Thread(n) == [i \in 1..n |-> [login |-> Login, body |-> CommentBody(i)]]

Call(op, ok) == [op |-> op, ok |-> ok]
Ops(log) == [i \in 1..Len(log) |-> log[i].op]
Count(log, op) == Len(SelectSeq(log, LAMBDA c : c.op = op))
CountOk(log, op) == Len(SelectSeq(log, LAMBDA c : c.op = op /\ c.ok))

\* dict.get(key, default)
Get(d, key, default) == IF key \in DOMAIN d THEN d[key] ELSE default
\* truthiness of dict.get(key) for a string value: present and not empty
Truthy(d, key) == key \in DOMAIN d /\ d[key] # ""

\* ------------------------------------------------------------------ Init
Init ==
    /\ pc = "main"
    /\ command \in Commands
    /\ context_type \in Contexts
    /\ pr_head_ref \in HeadRefs
    /\ \E n \in 0..MaxComments : comments = Thread(n)
    /\ status_comment = None
    /\ statusState = "absent"
    /\ calls = <<>>
    /\ problem = <<>>
    /\ problem_statement = <<>>
    /\ results = <<>>
    /\ patch_applied = FALSE
    /\ patch_message = ""
    /\ formatted_results = <<>>
    /\ gitIdx = 0
    /\ tmpdir = "none"
    /\ dataFile = FALSE
    /\ exc = NoExc
    /\ failedAt = NoStep
    /\ handlerFault = FALSE
    /\ exitExc = NoExc
    /\ helloCalls = 0
    /\ stdout = ""

inputs  == <<command, context_type, pr_head_ref, comments>>
hello   == <<helloCalls, stdout>>
github  == <<status_comment, statusState>>
locals  == <<problem, problem_statement, results, patch_applied,
             patch_message, formatted_results>>
patchFs == <<gitIdx, tmpdir>>
failure == <<exc, failedAt, handlerFault, exitExc>>

\* An exception raised in the try block of run() reaches the except clause.
Raise(step, e) ==
    /\ pc' = "except"
    /\ exc' = e
    /\ failedAt' = step
    /\ UNCHANGED <<handlerFault, exitExc>>

\* main(): parse the arguments and construct the wrapper (__init__).  An
\* exception here is outside run() and leaves main() uncaught.
WrapperInit ==
    /\ pc = "main"
    /\ \E ok \in BOOLEAN :
         /\ calls' = calls \o <<Call("Github", TRUE), Call("get_repo", ok)>>
         /\ IF ok THEN /\ pc' = "validate"
                       /\ UNCHANGED exitExc
                  ELSE /\ pc' = "exit"
                       /\ exitExc' = "GithubException"
    /\ UNCHANGED <<inputs, hello, github, locals, patchFs, dataFile, exc,
                   failedAt, handlerFault>>

\* run(), line 273: command_desc = self.validate_command()
validate_command(cmd) == cmd \in DOMAIN valid_commands

ValidateCommand ==
    /\ pc = "validate"
    /\ IF validate_command(command)
         THEN /\ pc' = "status_start"
              /\ UNCHANGED failure
         ELSE Raise("validate_command", "ValueError")
    /\ UNCHANGED <<inputs, hello, github, locals, patchFs, dataFile, calls>>

\* post_status(message, update): the calls it makes and what it leaves, for
\* each place where the environment can make it raise.
StatusFaults == {"none", "get_issue", "comment"}

post_status(update, fault) ==
    IF fault = "get_issue"
      THEN [ok |-> FALSE, log |-> <<Call("get_issue", FALSE)>>,
            sc |-> status_comment, st |-> statusState]
    ELSE IF update /\ status_comment # None
      THEN [ok  |-> fault = "none" /\ statusState = "live",
            log |-> <<Call("get_issue", TRUE),
                      Call("edit_status_comment",
                           fault = "none" /\ statusState = "live")>>,
            sc  |-> status_comment, st |-> statusState]
      ELSE [ok  |-> fault = "none",
            log |-> <<Call("get_issue", TRUE),
                      Call("create_status_comment", fault = "none")>>,
            sc  |-> IF fault = "none" THEN "comment" ELSE status_comment,
            st  |-> IF fault = "none" THEN "live" ELSE statusState]

\* The four call sites of post_status: its update argument, where control
\* goes next, and the step of run() and the exception an error surfaces as
\* (run_swe_agent wraps every exception).
StatusSites ==
    [status_start |-> [update |-> FALSE, next |-> "extract",
                       step |-> "post_status", e |-> "GithubException"],
     rsa_status1  |-> [update |-> TRUE, next |-> "rsa_args",
                       step |-> "run_swe_agent",
                       e |-> "Exception: SWE-Agent execution failed"],
     rsa_status2  |-> [update |-> TRUE, next |-> "rsa_env",
                       step |-> "run_swe_agent",
                       e |-> "Exception: SWE-Agent execution failed"],
     status_patch |-> [update |-> TRUE, next |-> "ap_check",
                       step |-> "post_status", e |-> "GithubException"]]

PostStatus ==
    /\ pc \in DOMAIN StatusSites
    /\ \E fault \in StatusFaults :
         LET site == StatusSites[pc]
             r    == post_status(site.update, fault)
         IN  /\ calls' = calls \o r.log
             /\ status_comment' = r.sc
             /\ statusState' = r.st
             /\ IF r.ok THEN /\ pc' = site.next
                             /\ UNCHANGED failure
                        ELSE Raise(site.step, site.e)
    /\ UNCHANGED <<inputs, hello, locals, patchFs, dataFile>>

\* ------------------------------------------- extract_problem_statement
Max(a, b) == IF a >= b THEN a ELSE b

\* variant of LastFive with the slice off by one (comments[-6:])
LastFive_offByOne(cs) == SubSeq(cs, Max(1, Len(cs) - 5), Len(cs))

\* comments[-5:]
LastFive(cs) == SubSeq(cs, Max(1, Len(cs) - 4), Len(cs))

\* the loop of lines 58-59: one "\n---\n@login: body\n" per comment
RECURSIVE CommentLines(_)
CommentLines(cs) ==
    IF cs = <<>> THEN <<>>
    ELSE <<"\n---\n@", Head(cs).login, ": ", Head(cs).body, "\n">>
         \o CommentLines(Tail(cs))

\* The value extract_problem_statement returns when no call raises.  A
\* context that is neither an issue nor a pull-request context falls off
\* the end of the method, which returns None.
extract_problem_statement(ctx, cs) ==
    IF ctx \in IssueContexts
      THEN <<"Issue Title: ", Title, "\n\nIssue Description:\n", Body, "\n\n">>
           \o (IF cs # <<>>
                 THEN <<"Recent Comments:\n">> \o CommentLines(LastFive(cs))
                 ELSE <<>>)
    ELSE IF ctx \in PRContexts
      THEN <<"PR Title: ", Title, "\n\nPR Description:\n", Body>>
    ELSE <<None>>

\* the API calls of extract_problem_statement, in order, per context
ExtractOps(ctx) ==
    IF ctx \in IssueContexts THEN <<"get_issue", "get_comments">>
    ELSE IF ctx \in PRContexts THEN <<"get_pull">>
    ELSE <<>>

\* run(), line 279.  failAt = 0: no call raises; failAt = k: the k-th call
\* raises, and the method wraps the exception.
ExtractProblemStatement ==
    /\ pc = "extract"
    /\ \E failAt \in 0..Len(ExtractOps(context_type)) :
         LET ops == ExtractOps(context_type)
             n   == IF failAt = 0 THEN Len(ops) ELSE failAt
         IN  /\ calls' = calls \o [i \in 1..n |-> Call(ops[i], i # failAt)]
             /\ IF failAt = 0
                  THEN /\ problem' =
                            extract_problem_statement(context_type, comments)
                       /\ pc' = "rsa_status1"
                       /\ UNCHANGED failure
                  ELSE /\ Raise("extract_problem_statement",
                           "Exception: Failed to extract problem statement")
                       /\ UNCHANGED problem
    /\ UNCHANGED <<inputs, hello, github, problem_statement, results,
                   patch_applied, patch_message, formatted_results, patchFs,
                   dataFile>>

\* ------------------------------------------------------------ run_swe_agent
AgentFailed == "Exception: SWE-Agent execution failed"

\* lines 100-107: the instruction put in front of the problem statement
\* (run_swe_agent is only reached with a valid command)
Instruction ==
    [analyze |-> "Analyze this issue and provide insights, but do not propose code changes:\n\n",
     fix     |-> "Analyze and fix this issue:\n\n",
     test    |-> "Run relevant tests and report results:\n\n",
     review  |-> "Review the current code/changes and provide feedback:\n\n"]

\* lines 89-115: read the environment, build AgentArguments (float() of a
\* malformed SWE_AGENT_COST_LIMIT raises), adjust the problem statement.
RsaConfigure ==
    /\ pc = "rsa_args"
    /\ \E ok \in BOOLEAN :
         IF ok THEN /\ problem_statement' = <<Instruction[command]>> \o problem
                    /\ pc' = "rsa_write"
                    /\ UNCHANGED failure
               ELSE /\ Raise("run_swe_agent", AgentFailed)
                    /\ UNCHANGED problem_statement
    /\ UNCHANGED <<inputs, hello, github, calls, problem, results,
                   patch_applied, patch_message, formatted_results, patchFs,
                   dataFile>>

\* lines 117-118: open(args.data_path, 'w') creates the file and json.dump
\* fills it; open raises when the path cannot be written.
RsaWriteData ==
    /\ pc = "rsa_write"
    /\ \E ok \in BOOLEAN :
         /\ dataFile' = ok
         /\ IF ok THEN /\ pc' = "rsa_status2"
                       /\ UNCHANGED failure
                  ELSE Raise("run_swe_agent", AgentFailed)
    /\ UNCHANGED <<inputs, hello, github, calls, locals, patchFs>>

\* lines 123-124: env = SWEEnv(args); agent = Agent(args)
RsaCreateAgent ==
    /\ pc = "rsa_env"
    /\ \E fault \in {"none", "SWEEnv", "Agent"} :
         /\ calls' = calls \o
              (IF fault = "SWEEnv" THEN <<Call("SWEEnv", FALSE)>>
               ELSE <<Call("SWEEnv", TRUE), Call("Agent", fault = "none")>>)
         /\ IF fault = "none" THEN /\ pc' = "rsa_run"
                                   /\ UNCHANGED failure
                              ELSE Raise("run_swe_agent", AgentFailed)
    /\ UNCHANGED <<inputs, hello, github, locals, patchFs, dataFile>>

\* The result objects of the agent.  A result is a dict: a function from the
\* keys that are present to their values.  total_cost is in cents.
Opt(key, values) == {<<>>} \cup {key :> v : v \in values}

ResultsAll ==
    { m @@ c @@ s @@ a @@ p @@ e @@ t @@ r @@ n :
        m \in Opt("model_name", {"gpt-4"}),
        c \in Opt("total_cost", {5, 1234}),
        s \in Opt("success", {TRUE, FALSE}),
        a \in Opt("analysis", {"<analysis>"}),
        p \in Opt("patch", {"", "<diff>"}),
        e \in Opt("explanation", {"<explanation>"}),
        t \in Opt("test_output", {"<test output>"}),
        r \in Opt("review_comments", {"<review>"}),
        n \in Opt("notes", {"", "<notes>"}) }

\* the results a run draws from: every case of patch, with all the other
\* fields absent or all of them present
ResultsRun ==
    { p @@ rest :
        p \in Opt("patch", {"", "<diff>"}),
        rest \in {<<>>,
                  [model_name |-> "gpt-4", total_cost |-> 1234,
                   success |-> TRUE, analysis |-> "<analysis>",
                   explanation |-> "<explanation>",
                   test_output |-> "<test output>",
                   review_comments |-> "<review>", notes |-> "<notes>"]} }

\* line 127: info = agent.run(env)
RsaRunAgent ==
    /\ pc = "rsa_run"
    /\ \/ /\ calls' = calls \o <<Call("agent.run", TRUE)>>
          /\ results' \in ResultsRun
          /\ pc' = "rsa_cleanup"
          /\ UNCHANGED failure
       \/ /\ calls' = calls \o <<Call("agent.run", FALSE)>>
          /\ Raise("run_swe_agent", AgentFailed)
          /\ UNCHANGED results
    /\ UNCHANGED <<inputs, hello, github, problem, problem_statement,
                   patch_applied, patch_message, formatted_results, patchFs,
                   dataFile>>

\* lines 129-133: remove the data file if it exists, return info
RsaCleanUp ==
    /\ pc = "rsa_cleanup"
    /\ dataFile' = FALSE
    /\ pc' = "patch_guard"
    /\ UNCHANGED <<inputs, hello, github, calls, locals, patchFs, failure>>

\* -------------------------------------------------------- apply_patch_to_pr
\* run(), lines 285-287: the patch is applied only for 'fix', a truthy
\* patch and a pull-request context.
PatchGuard ==
    /\ pc = "patch_guard"
    /\ patch_applied' = FALSE
    /\ patch_message' = ""
    /\ pc' = IF /\ command = "fix"
                /\ Truthy(results, "patch")
                /\ context_type \in PRContexts
               THEN "status_patch" ELSE "format"
    /\ UNCHANGED <<inputs, hello, github, calls, problem, problem_statement,
                   results, formatted_results, patchFs, dataFile, failure>>

NotPRContext  == "Not a pull request context"
PatchFailed   == "Failed to apply patch"
PatchSucceeded == "Patch applied successfully"

\* apply_patch_to_pr returns (applied, message) to run(), line 289
ApReturn(applied, message) ==
    /\ patch_applied' = applied
    /\ patch_message' = message
    /\ pc' = "format"

\* variant of NotPullRequest that does not look at pr_head_ref
NotPullRequest_ignoresRef(ref, ctx) == ctx \notin PRContexts

\* line 140: not self.pr_head_ref or self.context_type not in [...]
NotPullRequest(ref, ctx) == ref = "" \/ ctx \notin PRContexts

\* variant of WithExit in which the directory is removed only when the
\* block is left without an exception
WithExit_leaksOnError(raised) == IF raised THEN "exists" ELSE "removed"

\* The directory after control has left the with block of line 145:
\* TemporaryDirectory.__exit__ removes it on a return and on an exception.
WithExit(raised) == "removed"

\* lines 140-145: the context check, then entering the TemporaryDirectory
\* block.  Creating the directory can raise; the outer except returns.
ApEnter ==
    /\ pc = "ap_check"
    /\ IF NotPullRequest(pr_head_ref, context_type)
         THEN /\ ApReturn(FALSE, NotPRContext)
              /\ UNCHANGED <<patchFs, calls>>
         ELSE \E ok \in BOOLEAN :
                /\ calls' = calls \o <<Call("TemporaryDirectory", ok)>>
                /\ IF ok THEN /\ tmpdir' = "exists"
                              /\ gitIdx' = 0
                              /\ pc' = "ap_git"
                              /\ UNCHANGED <<patch_applied, patch_message>>
                         ELSE /\ ApReturn(FALSE, PatchFailed)
                              /\ UNCHANGED patchFs
    /\ UNCHANGED <<inputs, hello, github, problem, problem_statement,
                   results, formatted_results, dataFile, failure>>

\* variant of GitSteps that pushes before it commits
GitSteps_pushFirst ==
    <<"git.clone", "git.checkout", "write_patch", "git.apply",
      "git.add", "git.push", "git.commit">>

\* lines 148-170, in program order
GitSteps == <<"git.clone", "git.checkout", "write_patch", "git.apply",
              "git.add", "git.commit", "git.push">>

\* One statement of the with block.  A statement that raises is caught by
\* the inner (git apply) or the outer except and the method returns
\* (False, "Failed to apply patch: ..."); after the push it returns
\* (True, ...).  Every return leaves the with block, which removes the
\* directory.
GitStep ==
    /\ pc = "ap_git"
    /\ \E ok \in BOOLEAN :
         /\ calls' = calls \o <<Call(GitSteps[gitIdx + 1], ok)>>
         /\ IF ~ok
              THEN /\ tmpdir' = WithExit(TRUE)
                   /\ ApReturn(FALSE, PatchFailed)
                   /\ UNCHANGED gitIdx
            ELSE IF gitIdx + 1 = Len(GitSteps)
              THEN /\ tmpdir' = WithExit(FALSE)
                   /\ gitIdx' = gitIdx + 1
                   /\ ApReturn(TRUE, PatchSucceeded)
              ELSE /\ gitIdx' = gitIdx + 1
                   /\ UNCHANGED <<tmpdir, pc, patch_applied, patch_message>>
    /\ UNCHANGED <<inputs, hello, github, problem, problem_statement,
                   results, formatted_results, dataFile, failure>>

\* ----------------------------------------------------------- format_results
\* f"{cost:.2f}" with the cost in cents
Digit2(n) == IF n < 10 THEN "0" \o ToString(n) ELSE ToString(n)
\* variant of Format2f without the zero padding of the cents
Format2f_unpadded(cents) ==
    ToString(cents \div 100) \o "." \o ToString(cents % 100)

Format2f(cents) == ToString(cents \div 100) \o "." \o Digit2(cents % 100)

Footer ==
    "\n---\n*This analysis was performed automatically by SWE-Agent. Please review any proposed changes carefully.*\n"

format_results(cmd, res, applied, message) ==
    <<"## SWE-Agent Analysis Complete\n\n**Command**: ", cmd,
      "\n**Model**: ", Get(res, "model_name", "Unknown"),
      "\n**Cost**: $", Format2f(Get(res, "total_cost", 0)),
      "\n**Status**: ",
      IF Get(res, "success", FALSE) THEN "Success"
                                    ELSE "Completed with issues",
      "\n">>
    \o (IF cmd = "analyze"
          THEN <<"\n### Analysis:\n",
                 Get(res, "analysis", "No analysis provided"), "\n">>
        ELSE IF cmd = "fix"
          THEN IF Truthy(res, "patch")
                 THEN <<"\n### Proposed Solution:\n<fence>diff\n",
                        Get(res, "patch", "No changes proposed"),
                        "\n<fence>\n\n### Explanation:\n",
                        Get(res, "explanation", "No explanation provided"),
                        "\n">>
                      \o (IF applied
                            THEN <<"\n**Patch automatically applied to PR branch**">>
                          ELSE IF message # ""
                            THEN <<"\n**Patch not applied**: ", message>>
                          ELSE <<>>)
                 ELSE <<"\n### Result:\nNo code changes were necessary to address this issue.\n">>
        ELSE IF cmd = "test"
          THEN <<"\n### Test Results:\n<fence>\n",
                 Get(res, "test_output", "No test output available"),
                 "\n<fence>\n">>
        ELSE IF cmd = "review"
          THEN <<"\n### Code Review:\n",
                 Get(res, "review_comments", "No review comments provided"),
                 "\n">>
        ELSE <<>>)
    \o (IF Truthy(res, "notes")
          THEN <<"\n### Additional Notes:\n", res["notes"], "\n">>
          ELSE <<>>)
    \o <<Footer>>

\* run(), line 292
FormatResults ==
    /\ pc = "format"
    /\ formatted_results' =
         format_results(command, results, patch_applied, patch_message)
    /\ pc' = "delete_status"
    /\ UNCHANGED <<inputs, hello, github, calls, problem, problem_statement,
                   results, patch_applied, patch_message, patchFs, dataFile,
                   failure>>

\* ------------------------------------------------- the end of the try block
\* status_comment.delete(): GitHub answers 404 for a comment that has
\* already been deleted and the client raises; otherwise the environment
\* decides.
DeleteSucceeds(fault) == ~fault /\ statusState = "live"

\* run(), lines 295-296
DeleteStatus ==
    /\ pc = "delete_status"
    /\ IF status_comment = None
         THEN /\ pc' = "post_results"
              /\ UNCHANGED <<calls, statusState, failure>>
         ELSE \E fault \in BOOLEAN :
                /\ calls' = calls \o
                     <<Call("delete_status_comment", DeleteSucceeds(fault))>>
                /\ IF DeleteSucceeds(fault)
                     THEN /\ statusState' = "deleted"
                          /\ pc' = "post_results"
                          /\ UNCHANGED failure
                     ELSE /\ Raise("delete_status", "GithubException")
                          /\ UNCHANGED statusState
    /\ UNCHANGED <<inputs, hello, status_comment, locals, patchFs, dataFile>>

\* run(), lines 298-299; after them run() returns normally
PostResults ==
    /\ pc = "post_results"
    /\ \E fault \in {"none", "get_issue", "comment"} :
         /\ calls' = calls \o
              (IF fault = "get_issue" THEN <<Call("get_issue", FALSE)>>
               ELSE <<Call("get_issue", TRUE),
                      Call("create_result_comment", fault = "none")>>)
         /\ IF fault = "none" THEN /\ pc' = "exit"
                                   /\ UNCHANGED failure
                              ELSE Raise("post_results", "GithubException")
    /\ UNCHANGED <<inputs, hello, github, locals, patchFs, dataFile>>

\* ------------------------------------------------------- the except block
\* An exception raised inside the except block replaces the one being
\* handled and leaves run().
HandlerRaises(fault) ==
    /\ pc' = "exit"
    /\ exitExc' = "GithubException"
    /\ handlerFault' = (handlerFault \/ fault)
    /\ UNCHANGED <<exc, failedAt>>

\* run(), lines 303-309
ExceptDelete ==
    /\ pc = "except"
    /\ IF status_comment = None
         THEN /\ pc' = "post_error"
              /\ UNCHANGED <<calls, statusState, failure>>
         ELSE \E fault \in BOOLEAN :
                /\ calls' = calls \o
                     <<Call("delete_status_comment", DeleteSucceeds(fault))>>
                /\ IF DeleteSucceeds(fault)
                     THEN /\ statusState' = "deleted"
                          /\ pc' = "post_error"
                          /\ UNCHANGED failure
                     ELSE /\ HandlerRaises(fault /\ statusState = "live")
                          /\ UNCHANGED statusState
    /\ UNCHANGED <<inputs, hello, status_comment, locals, patchFs, dataFile>>

\* run(), lines 311-312: post_error(error_msg), then raise
PostError ==
    /\ pc = "post_error"
    /\ \E fault \in {"none", "get_issue", "comment"} :
         /\ calls' = calls \o
              (IF fault = "get_issue" THEN <<Call("get_issue", FALSE)>>
               ELSE <<Call("get_issue", TRUE),
                      Call("create_error_comment", fault = "none")>>)
         /\ IF fault = "none" THEN /\ pc' = "exit"
                                   /\ exitExc' = exc
                                   /\ UNCHANGED <<exc, failedAt, handlerFault>>
                              ELSE HandlerRaises(TRUE)
    /\ UNCHANGED <<inputs, hello, github, locals, patchFs, dataFile>>

\* -------------------------------------------------------------- hello_world
\* variant of hello_world without the comma
hello_world_noComma == "Hello World!"

\* hello_world()
hello_world == "Hello, World!"

\* main() of hello_world.py: print(hello_world())
HelloMain ==
    /\ helloCalls < MaxHelloCalls
    /\ helloCalls' = helloCalls + 1
    /\ stdout' = hello_world
    /\ UNCHANGED <<pc, inputs, github, calls, locals, patchFs, dataFile,
                   failure>>

Next ==
    \/ WrapperInit
    \/ ValidateCommand
    \/ PostStatus
    \/ ExtractProblemStatement
    \/ RsaConfigure
    \/ RsaWriteData
    \/ RsaCreateAgent
    \/ RsaRunAgent
    \/ RsaCleanUp
    \/ PatchGuard
    \/ ApEnter
    \/ GitStep
    \/ FormatResults
    \/ DeleteStatus
    \/ PostResults
    \/ ExceptDelete
    \/ PostError
    \/ HelloMain

Spec == Init /\ [][Next]_vars

\* ------------------------------------------------ format_results on its own
\* format_results applied to every result object: the state before line 292
\* of a run with a valid command.
InitFormat ==
    /\ pc = "format"
    /\ command \in DOMAIN valid_commands
    /\ context_type \in Contexts
    /\ pr_head_ref \in HeadRefs
    /\ comments = Thread(0)
    /\ status_comment = "comment"
    /\ statusState = "live"
    /\ calls = <<>>
    /\ problem = extract_problem_statement(context_type, comments)
    /\ problem_statement = <<Instruction[command]>> \o problem
    /\ results \in ResultsAll
    /\ IF command = "fix" /\ Truthy(results, "patch")
                          /\ context_type \in PRContexts
         THEN IF NotPullRequest(pr_head_ref, context_type)
                THEN patch_applied = FALSE /\ patch_message = NotPRContext
                ELSE \/ patch_applied = TRUE /\ patch_message = PatchSucceeded
                     \/ patch_applied = FALSE /\ patch_message = PatchFailed
         ELSE patch_applied = FALSE /\ patch_message = ""
    /\ formatted_results = <<>>
    /\ gitIdx = 0
    /\ tmpdir = "none"
    /\ dataFile = FALSE
    /\ exc = NoExc
    /\ failedAt = NoStep
    /\ handlerFault = FALSE
    /\ exitExc = NoExc
    /\ helloCalls = 0
    /\ stdout = ""

NextFormat == FormatResults

SpecFormat == InitFormat /\ [][NextFormat]_vars

\* ===================================================================
\* Properties
\* ===================================================================
Failed(log) == SelectSeq(log, LAMBDA c : ~c.ok)
Has(seq, x) == \E i \in 1..Len(seq) : seq[i] = x
\* the segment x occurs in seq and is directly followed by the segment v
Follows(seq, x, v) == \E i \in 1..(Len(seq) - 1) : seq[i] = x /\ seq[i + 1] = v
Min(a, b) == IF a <= b THEN a ELSE b

\* C1: a command that is not analyze, fix, test or review is rejected
\* before any external call is made: when validate_command has raised, no
\* call to the GitHub API, the agent or git has been made yet.
C1_RejectedBeforeAnyExternalCall ==
    failedAt = "validate_command" => calls = <<>>

\* C2: whenever a step of run() fails, the failure reaches the except
\* clause of run(), exactly one error comment is posted and the original
\* exception is re-raised; no failure is recovered from below the top
\* level.  (The calls of the except clause themselves are taken not to be
\* faulted by the environment.)
RunCalls == SubSeq(calls, 3, Len(calls))   \* the calls made after __init__

C2_EveryFailureReported ==
    (pc = "exit" /\ ~handlerFault /\ Len(calls) >= 2 /\ calls[2].ok) =>
       /\ (failedAt # NoStep =>
             /\ CountOk(calls, "create_error_comment") = 1
             /\ exitExc = exc)
       /\ (Failed(RunCalls) # <<>> => failedAt # NoStep)

\* C8: at most one status comment is created, it is deleted at most once
\* and never edited or deleted after it has been deleted, and the final
\* comment (result or error) is posted only after the status comment, if
\* one was created, has been deleted.
StatusOps == {"edit_status_comment", "delete_status_comment"}
FinalOps  == {"create_result_comment", "create_error_comment"}

C8_StatusCommentLifecycle ==
    /\ Count(calls, "create_status_comment") <= 1
    /\ \A i, j \in 1..Len(calls) :
         (i < j /\ calls[i] = Call("delete_status_comment", TRUE))
            => calls[j].op \notin StatusOps
    /\ \A j \in 1..Len(calls) :
         (calls[j].op \in FinalOps
            /\ \E i \in 1..(j - 1) : calls[i] = Call("create_status_comment", TRUE))
            => \E i \in 1..(j - 1) : calls[i] = Call("delete_status_comment", TRUE)

\* C10: the data file github_issue_<n>.json does not outlive run_swe_agent:
\* once the call has returned or raised, the file no longer exists.
InRunSweAgent ==
    pc \in {"rsa_status1", "rsa_args", "rsa_write", "rsa_status2", "rsa_env",
            "rsa_run", "rsa_cleanup"}

C10_DataFileRemoved == ~InRunSweAgent => ~dataFile

\* C7: hello_world() always returns the literal string "Hello, World!":
\* whatever the state and however often it has been called, the line printed
\* is that string.
C7_HelloWorldLiteral == helloCalls > 0 => stdout = "Hello, World!"

C7_Witness == helloCalls = MaxHelloCalls /\ pc = "exit"

\* C6: the temporary directory exists only while control is inside the with
\* block of apply_patch_to_pr: it is gone after every return, successful or
\* not, and it is never created when the call returns 'Not a pull request
\* context'.
C6_TmpdirReleased ==
    /\ pc # "ap_git" => tmpdir # "exists"
    /\ patch_message = NotPRContext => tmpdir = "none"

C6_Witness ==
    /\ tmpdir = "removed"
    /\ ~patch_applied
    /\ Failed(calls) # <<>>
    /\ pc = "format"

\* C3: for each of the four commands and every result object the comment
\* built by format_results has the Command, Model, Cost and Status fields
\* and the section of the command, with the fixed default text for every
\* absent result field, and ends with the fixed footer.
CostText(res) ==
    IF "total_cost" \notin DOMAIN res THEN "0.00"
    ELSE IF res["total_cost"] = 5 THEN "0.05"
    ELSE IF res["total_cost"] = 1234 THEN "12.34"
    ELSE "?"

FieldOr(res, key, text) == IF key \in DOMAIN res THEN res[key] ELSE text

SectionHeads ==
    [analyze |-> {"\n### Analysis:\n"},
     fix     |-> {"\n### Proposed Solution:\n<fence>diff\n",
                  "\n<fence>\n\n### Explanation:\n",
                  "\n### Result:\nNo code changes were necessary to address this issue.\n"},
     test    |-> {"\n### Test Results:\n<fence>\n"},
     review  |-> {"\n### Code Review:\n"}]

C3_TemplateRendersFields ==
    (formatted_results # <<>> /\ command \in DOMAIN valid_commands) =>
      LET r == formatted_results
          hasPatch == "patch" \in DOMAIN results /\ results["patch"] # ""
      IN  /\ Follows(r, "## SWE-Agent Analysis Complete\n\n**Command**: ",
                     command)
          /\ Follows(r, "\n**Model**: ", FieldOr(results, "model_name", "Unknown"))
          /\ Follows(r, "\n**Cost**: $", CostText(results))
          /\ Follows(r, "\n**Status**: ",
                     IF "success" \in DOMAIN results /\ results["success"]
                       THEN "Success" ELSE "Completed with issues")
          /\ command = "analyze" =>
               Follows(r, "\n### Analysis:\n",
                       FieldOr(results, "analysis", "No analysis provided"))
          /\ (command = "fix" /\ hasPatch) =>
               /\ Follows(r, "\n### Proposed Solution:\n<fence>diff\n",
                          results["patch"])
               /\ Follows(r, "\n<fence>\n\n### Explanation:\n",
                          FieldOr(results, "explanation",
                                  "No explanation provided"))
               /\ ~Has(r, "\n### Result:\nNo code changes were necessary to address this issue.\n")
          /\ (command = "fix" /\ ~hasPatch) =>
               /\ Has(r, "\n### Result:\nNo code changes were necessary to address this issue.\n")
               /\ ~Has(r, "\n### Proposed Solution:\n<fence>diff\n")
          /\ command = "test" =>
               Follows(r, "\n### Test Results:\n<fence>\n",
                       FieldOr(results, "test_output",
                               "No test output available"))
          /\ command = "review" =>
               Follows(r, "\n### Code Review:\n",
                       FieldOr(results, "review_comments",
                               "No review comments provided"))
          /\ \A other \in DOMAIN valid_commands \ {command} :
               \A h \in SectionHeads[other] : ~Has(r, h)
          /\ r[Len(r)] =
               "\n---\n*This analysis was performed automatically by SWE-Agent. Please review any proposed changes carefully.*\n"

C3_Witness ==
    /\ formatted_results # <<>>
    /\ command = "fix"
    /\ Truthy(results, "patch")
    /\ DOMAIN results = {"patch", "total_cost"}
    /\ results["total_cost"] = 5

\* C4 as stated: in every run in which the result has a non-empty patch and
\* the context is a pull-request context, the patch steps clone, checkout,
\* write, apply, commit, push are performed, in this order.  (Stated for the
\* runs in which no call fails.)
PatchOrder == <<"git.clone", "git.checkout", "write_patch", "git.apply",
                "git.add", "git.commit", "git.push">>
PatchOps == {PatchOrder[i] : i \in 1..Len(PatchOrder)}
GitCalls == SelectSeq(calls, LAMBDA c : c.op \in PatchOps)
NoFailure == failedAt = NoStep /\ Failed(calls) = <<>>
PatchConditions ==
    /\ "patch" \in DOMAIN results /\ results["patch"] # ""
    /\ context_type \in {"pull_request", "pull_request_comment"}

C4_PatchStepsPerformed ==
    (pc = "exit" /\ NoFailure /\ Len(calls) > 2 /\ PatchConditions)
        => Ops(GitCalls) = PatchOrder

\* C4, amended: the patch steps are performed only in a run whose command
\* is 'fix', whose result has a non-empty patch, whose context is a
\* pull-request context and whose pr_head_ref is not empty.  In such a run
\* the steps clone, checkout, write, apply, add, commit, push start in this
\* order, each at most once and each only after the one before it has
\* completed successfully; the sequence stops at the first step that fails
\* and is complete when no call of the run fails.
C4_PatchStepsInOrder ==
    /\ Ops(GitCalls) = SubSeq(PatchOrder, 1, Len(GitCalls))
    /\ \A i \in 1..(Len(GitCalls) - 1) : GitCalls[i].ok
    /\ GitCalls # <<>> =>
         command = "fix" /\ PatchConditions /\ pr_head_ref # ""
    /\ (pc = "exit" /\ NoFailure /\ Len(calls) > 2 /\ command = "fix"
          /\ PatchConditions /\ pr_head_ref # "")
         => Ops(GitCalls) = PatchOrder

C4_Witness ==
    /\ pc = "exit"
    /\ NoFailure
    /\ Ops(GitCalls) = PatchOrder

\* C5 as stated: for an issue or pull-request thread with n comments the
\* problem statement holds the title, the body and exactly the last
\* min(n, 5) comments, in their original order.
ExpectedComments ==
    LET n == Len(comments)
        k == Min(n, 5)
    IN  [i \in 1..k |-> CommentBody(n - k + i)]
AllBodies == {comments[i].body : i \in 1..Len(comments)}
BodiesIn(stmt) == SelectSeq(stmt, LAMBDA x : x \in AllBodies)
Extracted == pc \notin {"main", "validate", "status_start", "extract"}
                /\ problem # <<>>

C5_LastFiveComments ==
    (Extracted /\ context_type \in IssueContexts \cup PRContexts) =>
        /\ Has(problem, Title)
        /\ Has(problem, Body)
        /\ BodiesIn(problem) = ExpectedComments

\* C5, amended: in an issue context (issues, issue_comment) the problem
\* statement holds the title, then the body, then exactly the last
\* min(n, 5) comments in their original order and no older one; in a
\* pull-request context it holds the title and the body of the pull
\* request and no comment.
C5_LastFiveCommentsOfIssue ==
    Extracted =>
        /\ context_type \in {"issues", "issue_comment"} =>
             /\ Follows(problem, "Issue Title: ", Title)
             /\ Follows(problem, "\n\nIssue Description:\n", Body)
             /\ problem[2] = Title /\ problem[4] = Body
             /\ BodiesIn(SubSeq(problem, 5, Len(problem))) = ExpectedComments
        /\ context_type \in {"pull_request", "pull_request_comment"} =>
             problem = <<"PR Title: ", Title, "\n\nPR Description:\n", Body>>

C5_Witness ==
    /\ Extracted
    /\ context_type = "issue_comment"
    /\ Len(comments) > 5

\* C9: a commit is pushed only in a run whose command is 'fix', whose result
\* has a non-empty patch, whose context is a pull-request context, whose
\* pr_head_ref is not empty and in which git apply succeeded; otherwise
\* there is no commit and no push, apply_patch_to_pr raises nothing and
\* returns (False, message), and it returns (True, ...) only after the push
\* has completed.
Attempted(op) == Count(calls, op) > 0
ApplyCalled == Attempted("TemporaryDirectory") \/ patch_message = NotPRContext
ApplyReturned == ApplyCalled /\ pc # "ap_git"

C9_PushOnlyAfterApply ==
    /\ (Attempted("git.commit") \/ Attempted("git.push")) =>
         /\ command = "fix"
         /\ "patch" \in DOMAIN results /\ results["patch"] # ""
         /\ context_type \in {"pull_request", "pull_request_comment"}
         /\ pr_head_ref # ""
         /\ CountOk(calls, "git.apply") = 1
    /\ ApplyReturned =>
         /\ failedAt \in {NoStep, "delete_status", "post_results"}
         /\ patch_applied => /\ CountOk(calls, "git.push") = 1
                             /\ patch_message = PatchSucceeded
         /\ ~patch_applied => /\ patch_message \in {NotPRContext, PatchFailed}
                              /\ CountOk(calls, "git.push") = 0

C9_Witness ==
    /\ pc = "format"
    /\ patch_applied
    /\ CountOk(calls, "git.push") = 1
====
